---- MODULE Spec2Model ----
(***************************************************************************)
(* Model of newapi.py: a Streamlit script that pages a sports-event API    *)
(* day by day, normalises the records, buffers them in the session and     *)
(* loads them into a warehouse table.                                      *)
(*                                                                         *)
(* Encoding of Python values.  A JSON value is a record tagged by "t":     *)
(* None, an int, a str or a dict (a function from key names to values).    *)
(* The formatted date "YYYY-MM-DD" is the tuple <<Y, M, D>>, the formatted *)
(* time "HH:MM:SS" is <<H, M, S>>, and the empty string in those two       *)
(* columns is the empty tuple <<>>.  A calendar date (datetime.date) is    *)
(* its number of days since 1970-01-01.                                    *)
(***************************************************************************)
EXTENDS Integers, Sequences, FiniteSets, TLC

VARIABLES
    \* --- inputs and outputs of the two leaf helpers (SpecConv) ---
    side,           \* argument of _extract_name
    name_out,       \* its result, or "unset" before the call
    epoch_value,    \* argument of _convert_epoch_to_date_time
    tz_name,        \* argument of _convert_epoch_to_date_time
    ZoneInfo,       \* TRUE when the zoneinfo import succeeded (line 20-23)
    dt_out,         \* <<result>> of the conversion, <<>> before the call
    \* --- widgets (their values persist from one script run to the next) ---
    betsapi_token,  \* st.text_input, line 260
    fecha_desde,    \* st.date_input, line 277 (a day count)
    fecha_hasta,    \* st.date_input, line 278
    timezone,       \* st.text_input, line 279
    upl,            \* st.file_uploader, line 300: <<>> or <<file>>
    do_fetch,       \* st.button, line 295: TRUE in the run its click starts
    do_save,        \* st.button, line 297
    \* --- session and process state ---
    df_buf,         \* st.session_state.df_buf: a sequence of rows
    buf_tz,         \* history: the zone name normalize_result got for df_buf
    sf_cache,       \* st.cache_resource entry of get_sf_conn: "none", "open", "closed"
    \* --- environment ---
    endpoint,       \* what the events API answers, per day
    credentials,    \* TRUE when SF_ACCOUNT, SF_USER and SF_PASSWORD are set
    table,          \* rows of the warehouse table
    table_exists,   \* the table has been created
    ingest_clock,   \* source of _ingested_at: one tick per bulk insert
    restarts,       \* server restarts so far
    \* --- the script run in progress ---
    pc,             \* "idle", "fetch", "upload", "save", "query", "done"
    fetch_out,      \* what the fetch handler did in this run
    sf_log,         \* connection events of this run
    save_hist       \* history: the save operations that reached the warehouse

convVars == <<side, name_out, epoch_value, tz_name, dt_out>>
widgetVars == <<betsapi_token, fecha_desde, fecha_hasta, timezone, upl, do_fetch, do_save>>
envVars == <<endpoint, credentials, ZoneInfo>>
sinkVars == <<sf_cache, table, table_exists, ingest_clock, sf_log, save_hist>>
vars == <<convVars, widgetVars, envVars, sinkVars, df_buf, buf_tz, restarts, pc, fetch_out>>

-----------------------------------------------------------------------------
(* Python values *)

NoneV == [t |-> "none"]
IntV(n) == [t |-> "int", v |-> n]
StrV(s) == [t |-> "str", v |-> s]
DictV(d) == [t |-> "dict", v |-> d]
ListV(l) == [t |-> "list", v |-> l]
\* An int in milliseconds where seconds are expected: 1709251200000.
BigIntV == [t |-> "bigint"]

\* bool(v): None, 0, "" and {} are falsy.
Truthy(v) ==
    CASE v.t = "none" -> FALSE
      [] v.t = "int"  -> v.v # 0
      [] v.t = "bigint" -> TRUE
      [] v.t = "str"  -> v.v # ""
      [] v.t = "dict" -> DOMAIN v.v # {}
      [] v.t = "list" -> Len(v.v) > 0

\* a or b
Or(a, b) == IF Truthy(a) THEN a ELSE b

\* d.get(k) on a dict d (the untagged function)
Get(d, k) == IF k \in DOMAIN d THEN d[k] ELSE NoneV

\* str(v) for the scalar values the model feeds it
Str(v) ==
    CASE v.t = "str"  -> v.v
      [] v.t = "int"  -> ToString(v.v)
      [] v.t = "bigint" -> "1709251200000"
      [] v.t = "none" -> "None"
      [] v.t = "dict" -> "{}"
      [] v.t = "list" -> "[]"

-----------------------------------------------------------------------------
(* _extract_name, lines 123-138 *)

\* The spec's order (full, English, short, generic) in place of the code's.
ExtractNameFullFirst(s) ==
    IF s.t = "none" THEN ""
    ELSE IF s.t = "dict"
         THEN Str(Or(Or(Or(Or(Get(s.v, "name_full"), Get(s.v, "name_en")),
                           Get(s.v, "name_short")), Get(s.v, "name")),
                     StrV("")))
         ELSE Str(s)

_extract_name(s) ==
    IF s.t = "none" THEN ""
    ELSE IF s.t = "dict"
         THEN Str(Or(Or(Or(Or(Get(s.v, "name"), Get(s.v, "name_en")),
                           Get(s.v, "name_full")), Get(s.v, "name_short")),
                     StrV("")))
         ELSE Str(s)

-----------------------------------------------------------------------------
(* _convert_epoch_to_date_time, lines 140-170 *)

\* Outcome of a call that may raise.
Ok(v) == [ok |-> TRUE, v |-> v]
Raise == [ok |-> FALSE]

\* The decimal strings the model uses as epoch values, with their int() value.
NumericStr ==
    [s \in {"0", "1709251200", "1709337600"} |->
        CASE s = "0" -> 0
          [] s = "1709251200" -> 1709251200
          [] s = "1709337600" -> 1709337600]

\* int(epoch_value), line 148: TypeError on None, a dict or a list,
\* ValueError on a string that is not a decimal literal.  `huge` marks an
\* int beyond the years 1..9999 that datetime covers.
IntCoerce(v) ==
    CASE v.t = "int"    -> [ok |-> TRUE, v |-> v.v, huge |-> FALSE]
      [] v.t = "bigint" -> [ok |-> TRUE, v |-> 0, huge |-> TRUE]
      [] v.t = "str"    -> IF v.v \in DOMAIN NumericStr
                           THEN [ok |-> TRUE, v |-> NumericStr[v.v], huge |-> FALSE]
                           ELSE Raise
      [] OTHER -> Raise

\* The zones the tz database knows, as fixed offsets from UTC in seconds
\* (neither zone observes daylight saving time at the modelled instants).
ZoneOffset ==
    [z \in {"UTC", "America/Monterrey", "Asia/Tokyo"} |->
        CASE z = "UTC" -> 0
          [] z = "America/Monterrey" -> 0 - 6 * 3600
          [] z = "Asia/Tokyo" -> 9 * 3600]

\* ZoneInfo(tz_name), line 155: raises for a name the database lacks.
ZoneInfoCtor(z) == IF z \in DOMAIN ZoneOffset THEN Ok(ZoneOffset[z]) ELSE Raise

\* Proleptic Gregorian date <<Y, M, D>> of a day count (strftime("%Y-%m-%d")).
CivilFromDays(z0) ==
    LET z   == z0 + 719468
        era == z \div 146097
        doe == z - era * 146097
        yoe == (doe - doe \div 1460 + doe \div 36524 - doe \div 146096) \div 365
        doy == doe - (365 * yoe + yoe \div 4 - yoe \div 100)
        mp  == (5 * doy + 2) \div 153
        d   == doy - (153 * mp + 2) \div 5 + 1
        m   == IF mp < 10 THEN mp + 3 ELSE mp - 9
        y   == yoe + era * 400 + (IF m <= 2 THEN 1 ELSE 0)
    IN  <<y, m, d>>

\* <<H, M, S>> of a second of the day (strftime("%H:%M:%S")).
ClockFromSecs(s) == <<s \div 3600, (s % 3600) \div 60, s % 60>>

\* (strftime date, strftime time) of a wall-clock instant in seconds.
FormatDateTime(secs) == <<CivilFromDays(secs \div 86400), ClockFromSecs(secs % 86400)>>

EmptyDateTime == << <<>>, <<>> >>

\* The outer try body, lines 153-163: resolve the zone (UTC when the name is
\* empty, unknown, or zoneinfo is missing), then fromtimestamp, which raises
\* on an instant outside datetime's range, astimezone and strftime.
LocalizedFormat(c, tz, haveZoneInfo) ==
    LET r   == IF haveZoneInfo /\ tz # "" THEN ZoneInfoCtor(tz) ELSE Raise
        off == IF haveZoneInfo /\ tz # "" /\ r.ok THEN r.v ELSE 0
    IN  IF c.huge THEN Raise ELSE Ok(FormatDateTime(c.v + off))

\* The fallback, lines 166-168: utcfromtimestamp, with the same range.
NaiveUtcFormat(c) == IF c.huge THEN Raise ELSE Ok(FormatDateTime(c.v))

\* A variant with no UTC fallback: an unresolved zone gives ("", "").
ConvertNoUtcFallback(ev, tz, haveZoneInfo) ==
    IF ~Truthy(ev) THEN EmptyDateTime
    ELSE LET c == IntCoerce(ev) IN
         IF ~c.ok THEN EmptyDateTime
         ELSE IF ~(haveZoneInfo /\ tz # "" /\ ZoneInfoCtor(tz).ok) THEN EmptyDateTime
         ELSE LET a == LocalizedFormat(c, tz, haveZoneInfo) IN
              IF a.ok THEN a.v ELSE EmptyDateTime

_convert_epoch_to_date_time(ev, tz, haveZoneInfo) ==
    IF ~Truthy(ev) THEN EmptyDateTime
    ELSE LET c == IntCoerce(ev) IN
         IF ~c.ok THEN EmptyDateTime
         ELSE LET a == LocalizedFormat(c, tz, haveZoneInfo) IN
              IF a.ok THEN a.v
              ELSE LET b == NaiveUtcFormat(c) IN
                   IF b.ok THEN b.v ELSE EmptyDateTime

-----------------------------------------------------------------------------
(* normalize_result, lines 172-230 *)

\* The row of lines 219-228 from the looked-up values.
RowOf(it, event_id, when, league, home, away) ==
    [event_key       |-> IF event_id.t # "none" THEN Str(event_id) ELSE "",
     event_date      |-> when[1],
     event_time      |-> when[2],
     first_player    |-> _extract_name(home),
     second_player   |-> _extract_name(away),
     tournament_name |-> IF league.t = "dict"
                         THEN Str(Or(Or(Or(Get(league.v, "name"), Get(league.v, "name_en")),
                                        Get(league.v, "cc")), StrV("")))
                         ELSE Str(league),
     event_type_type |-> Str(Or(Get(it, "sport_id"), StrV(""))),
     event_status    |-> Str(Or(Or(Get(it, "time_status"), Get(it, "status")), StrV("")))]

\* One iteration of the loop body, lines 179-228; `it` is the untagged dict.
NormalizeRow(it, tz, haveZoneInfo) ==
    RowOf(it,
          Or(Or(Or(Or(Get(it, "id"), Get(it, "event_id")), Get(it, "FI")),
                Get(it, "match_id")), Get(it, "event_key")),
          _convert_epoch_to_date_time(
              Or(Or(Get(it, "time"), Get(it, "start_time")), Get(it, "kickoff")),
              tz, haveZoneInfo),
          Or(Get(it, "league"), DictV([x \in {} |-> NoneV])),
          Or(Or(Get(it, "home"), Get(it, "home_team")), Get(it, "home_player")),
          Or(Or(Get(it, "away"), Get(it, "away_team")), Get(it, "away_player")))

\* The whole function on a Python list (a sequence of values): it.get raises
\* AttributeError on an item that is not a dict, and the call raises with it.
normalize_result(result_list, tz, haveZoneInfo) ==
    IF \E i \in 1..Len(result_list) : result_list[i].t # "dict"
    THEN Raise
    ELSE Ok([i \in 1..Len(result_list) |-> NormalizeRow(result_list[i].v, tz, haveZoneInfo)])

-----------------------------------------------------------------------------
(* Bounds and inputs *)

NumDays == 2            \* days the date pickers can select
MaxDataPages == 1       \* scripted data pages before an endpoint's tail
MaxSaves == 2           \* save operations recorded in save_hist
MaxRestarts == 1        \* server restarts

MAX_PAGES_PER_DAY == 20

\* 2024-03-01 is day 19783.
Days == 19783 .. (19783 + NumDays - 1)
DayIndex(d) == d - 19783 + 1

Tails == {"http", "list", "fail", "empty", "more"}
DayScripts == [n : 0..MaxDataPages, tail : Tails]

-----------------------------------------------------------------------------
(* The events API as the script sees it: fetch_api_day, lines 232-252 *)

\* The record the mocked endpoint lists on a page at a position.  Keys repeat
\* across days, pages and positions; the home name tells the occurrences apart.
\* The second record carries its key in FI and its time in start_time.
RawRecord(d, page, pos) ==
    LET who == "d" \o ToString(DayIndex(d)) \o "p" \o ToString(page) \o "#" \o ToString(pos)
    IN  IF pos = 1
        THEN DictV([id |-> StrV("k" \o ToString((DayIndex(d) + page) % 3)),
                    time |-> IntV(d * 86400 + 3600 * page),
                    home |-> DictV([name |-> StrV(who)]),
                    away |-> StrV("x"),
                    league |-> DictV([name |-> StrV("ATP")]),
                    sport_id |-> StrV("13"),
                    time_status |-> StrV("0")])
        ELSE DictV([FI |-> IntV(page % 2),
                    start_time |-> IntV(d * 86400 + 3600 * 20),
                    home |-> DictV([name_full |-> StrV(who), name |-> StrV("")]),
                    league |-> DictV([cc |-> StrV("mx")]),
                    sport_id |-> IntV(13)])

\* A successful page: the list is under "results" on odd pages and under
\* the singular "result" on even ones.
DataPayload(d, page) ==
    LET recs == ListV(<<RawRecord(d, page, 1), RawRecord(d, page, 2)>>)
    IN  IF page % 2 = 1
        THEN DictV([success |-> IntV(1), results |-> recs])
        ELSE DictV([success |-> IntV(1), result |-> recs])

\* requests.get + raise_for_status + r.json(): raises on a transport or HTTP
\* error, else returns the decoded JSON, whatever its shape.
fetch_api_day(ep, d, page) ==
    LET s == ep[d] IN
    IF page <= s.n THEN Ok(DataPayload(d, page))
    ELSE CASE s.tail = "http"  -> Raise
           [] s.tail = "list"  -> Ok(ListV(<<>>))
           [] s.tail = "fail"  -> Ok(DictV([success |-> IntV(0), error |-> StrV("AUTHORIZE_FAILED")]))
           [] s.tail = "empty" -> Ok(DictV([success |-> IntV(1), results |-> ListV(<<>>)]))
           [] s.tail = "more"  -> Ok(DataPayload(d, page))

-----------------------------------------------------------------------------
(* The fetch handler, lines 309-404 *)

\* line 364 with an off-by-one.
CeilingAtMax(page) == page >= MAX_PAGES_PER_DAY

\* line 364: if page > MAX_PAGES_PER_DAY
CeilingReached(page) == page > MAX_PAGES_PER_DAY

\* The list the loop reads from a payload, lines 350-353: "results", or
\* "result" when that is None.
PayloadResults(payload) ==
    IF Get(payload, "results").t = "none" THEN Get(payload, "result")
    ELSE Get(payload, "results")

\* The while loop of one day, lines 329-368, from `page` on.  st carries the
\* day's accumulator, the requests made so far and the error list; r is
\* what fetch_api_day did for this page.
RECURSIVE PageLoop(_, _, _, _)
PageStep(ep, d, page, st, r) ==
    IF ~r.ok
    THEN [acc |-> st.acc, reqs |-> Append(st.reqs, <<d, page>>), aborted |-> FALSE,
          errs |-> Append(st.errs, [day |-> d, page |-> page, kind |-> "http"])]
    ELSE IF r.v.t # "dict"
    THEN \* payload.get raises AttributeError, caught only at line 403
         [acc |-> st.acc, reqs |-> Append(st.reqs, <<d, page>>), aborted |-> TRUE,
          errs |-> st.errs]
    ELSE IF ~(Get(r.v.v, "success").t = "int" /\ Get(r.v.v, "success").v = 1)
    THEN [acc |-> st.acc, reqs |-> Append(st.reqs, <<d, page>>), aborted |-> FALSE,
          errs |-> Append(st.errs, [day |-> d, page |-> page, kind |-> "success"])]
    ELSE IF ~Truthy(PayloadResults(r.v.v))
    THEN [acc |-> st.acc, reqs |-> Append(st.reqs, <<d, page>>), aborted |-> FALSE,
          errs |-> st.errs]
    ELSE IF CeilingReached(page + 1)
    THEN [acc |-> st.acc \o PayloadResults(r.v.v).v, reqs |-> Append(st.reqs, <<d, page>>),
          aborted |-> FALSE, errs |-> Append(st.errs, [day |-> d, kind |-> "ceiling"])]
    ELSE PageLoop(ep, d, page + 1,
                  [acc |-> st.acc \o PayloadResults(r.v.v).v,
                   reqs |-> Append(st.reqs, <<d, page>>), errs |-> st.errs])

PageLoop(ep, d, page, st) == PageStep(ep, d, page, st, fetch_api_day(ep, d, page))

\* The for loop over the days, lines 321-378, from day index i on.  day is
\* what the while loop left for this day, nr what normalize_result did with
\* its accumulator (lines 370-373).
RECURSIVE DayLoop(_, _, _, _, _, _, _)
DayEnd(ep, desde, i, total_dias, tz, haveZoneInfo, st, day, nr) ==
    IF day.aborted \/ ~nr.ok
    THEN [st EXCEPT !.reqs = day.reqs, !.errs = day.errs, !.aborted = TRUE]
    ELSE DayLoop(ep, desde, i + 1, total_dias, tz, haveZoneInfo,
                 [dfs |-> IF nr.v # <<>> THEN Append(st.dfs, nr.v) ELSE st.dfs,
                  accs |-> Append(st.accs, day.acc),
                  reqs |-> day.reqs, errs |-> day.errs, aborted |-> FALSE])

DayStep(ep, desde, i, total_dias, tz, haveZoneInfo, st, day) ==
    DayEnd(ep, desde, i, total_dias, tz, haveZoneInfo, st, day,
           IF day.aborted \/ day.acc = <<>> THEN Ok(<<>>)
           ELSE normalize_result(day.acc, tz, haveZoneInfo))

DayLoop(ep, desde, i, total_dias, tz, haveZoneInfo, st) ==
    IF i >= total_dias THEN st
    ELSE DayStep(ep, desde, i, total_dias, tz, haveZoneInfo, st,
                 PageLoop(ep, desde + i, 1,
                          [acc |-> <<>>, reqs |-> st.reqs, errs |-> st.errs]))

\* pd.concat(dfs, ignore_index=True), line 385
RECURSIVE Concat(_)
Concat(dfs) == IF dfs = <<>> THEN <<>> ELSE Head(dfs) \o Concat(Tail(dfs))

\* drop_duplicates keeping the last row of each key instead of the first.
RECURSIVE DropDuplicatesKeepLast(_)
DropDuplicatesKeepLast(rows) ==
    IF rows = <<>> THEN <<>>
    ELSE IF \E j \in 2..Len(rows) : rows[j].event_key = rows[1].event_key
         THEN DropDuplicatesKeepLast(Tail(rows))
         ELSE <<Head(rows)>> \o DropDuplicatesKeepLast(Tail(rows))

\* df_all.drop_duplicates(subset=["event_key"]), line 389: pandas keeps the
\* first row of each key, in order.
RECURSIVE DropDuplicates(_)
DropDuplicates(rows) ==
    IF rows = <<>> THEN <<>>
    ELSE LET n == Len(rows) IN
         IF \E j \in 1..(n - 1) : rows[j].event_key = rows[n].event_key
         THEN DropDuplicates(SubSeq(rows, 1, n - 1))
         ELSE Append(DropDuplicates(SubSeq(rows, 1, n - 1)), rows[n])

\* str.strip() on the zone names the model types into the widget.
Strip(s) == IF s = " UTC " THEN "UTC" ELSE s

NoFetch == [status |-> "none"]

\* What the handler leaves behind after the range loop `run`: the status it
\* displays, the requests it made, each completed day's accumulator, the
\* error list, the errors it displayed and the frame it stored
\* (lines 380-404).
FetchReport(run) ==
    [status   |-> IF run.aborted THEN "general_error"
                  ELSE IF run.dfs = <<>> THEN "no_rows" ELSE "ok",
     requests |-> run.reqs,
     accs     |-> run.accs,
     errores  |-> run.errs,
     shown    |-> IF run.aborted THEN <<>> ELSE run.errs,
     df_all   |-> IF run.aborted \/ run.dfs = <<>> THEN <<>>
                  ELSE DropDuplicates(Concat(run.dfs))]

\* The handler, lines 309-404.
FetchResult ==
    IF ~do_fetch THEN NoFetch
    ELSE IF betsapi_token = "" THEN [status |-> "warn_token"]
    ELSE IF fecha_hasta < fecha_desde THEN [status |-> "bad_range"]
    ELSE FetchReport(DayLoop(endpoint, fecha_desde, 0, (fecha_hasta - fecha_desde) + 1,
                             Strip(timezone), ZoneInfo,
                             [dfs |-> <<>>, accs |-> <<>>, reqs |-> <<>>, errs |-> <<>>,
                              aborted |-> FALSE]))

DoFetch ==
    /\ pc = "fetch"
    /\ pc' = "upload"
    /\ fetch_out' = FetchResult
    /\ df_buf' = IF fetch_out'.status = "ok" THEN fetch_out'.df_all ELSE df_buf
    /\ buf_tz' = IF fetch_out'.status = "ok" THEN Strip(timezone) ELSE buf_tz
    /\ UNCHANGED <<convVars, widgetVars, envVars, sinkVars, restarts>>

-----------------------------------------------------------------------------
(* The upload handler, lines 406-427 *)

\* A file that holds the API's JSON and one that holds a bare JSON list
\* (a file that is not JSON at all has valid = FALSE).
UploadFiles ==
    { [valid |-> TRUE,
       data  |-> DictV([success |-> IntV(1),
                        results |-> ListV(<<DictV([id |-> StrV("k1"),
                                                   time |-> StrV("1709251200"),
                                                   home |-> StrV("upload")])>>)])],
      [valid |-> TRUE, data |-> ListV(<<DictV([id |-> StrV("k9")])>>)] }

\* The frame the handler stores, as <<rows>>, or <<>> when it stores none:
\* json.load raises on bad JSON, data.get raises on a list, a success other
\* than 1 is refused, and an empty frame is not stored.
StoredFrame(df_json) == IF ~df_json.ok \/ df_json.v = <<>> THEN <<>> ELSE <<df_json.v>>

UploadedFrame(file, tz, haveZoneInfo) ==
    IF ~file.valid \/ file.data.t # "dict" THEN <<>>
    ELSE IF Get(file.data.v, "success").t # "none"
            /\ ~(Get(file.data.v, "success").t = "int" /\ Get(file.data.v, "success").v = 1)
    THEN <<>>
    ELSE StoredFrame(normalize_result(
             Or(Or(Get(file.data.v, "results"), Get(file.data.v, "result")), ListV(<<>>)).v,
             tz, haveZoneInfo))

\* line 424 is reached: a file is in the uploader and gave a frame.
UploadStores == upl # <<>> /\ UploadedFrame(upl[1], Strip(timezone), ZoneInfo) # <<>>

DoUpload ==
    /\ pc = "upload"
    /\ pc' = "save"
    /\ df_buf' = IF UploadStores THEN UploadedFrame(upl[1], Strip(timezone), ZoneInfo)[1]
                  ELSE df_buf
    /\ buf_tz' = IF UploadStores THEN Strip(timezone) ELSE buf_tz
    /\ UNCHANGED <<convVars, widgetVars, envVars, sinkVars, restarts, fetch_out>>

-----------------------------------------------------------------------------
(* The warehouse: get_sf_conn, ensure_objects, delete_partition_range,
   insert_df, lines 51-115 *)

\* date of a formatted "YYYY-MM-DD": pd.to_datetime(...).dt.date, line 495
DaysFromCivil(ymd) ==
    LET y   == ymd[1] - (IF ymd[2] <= 2 THEN 1 ELSE 0)
        era == y \div 400
        yoe == y - era * 400
        mp  == IF ymd[2] > 2 THEN ymd[2] - 3 ELSE ymd[2] + 9
        doy == (153 * mp + 2) \div 5 + ymd[3] - 1
        doe == yoe * 365 + yoe \div 4 - yoe \div 100 + doy
    IN  era * 146097 + doe - 719468

\* get_sf_conn under st.cache_resource: the cached object when there is one,
\* in whatever state it is; else a new connection, cached, or RuntimeError
\* when the credentials are missing (an exception is not cached).
get_sf_conn(cache, haveCredentials) ==
    IF cache # "none" THEN Ok(cache)
    ELSE IF haveCredentials THEN Ok("open") ELSE Raise

\* delete_partition_range, lines 97-106: the rows the statement leaves.
delete_partition_range(rows, start, stop, tz) ==
    SelectSeq(rows, LAMBDA r : ~(r.source_date >= start /\ r.source_date <= stop
                                 /\ r.timezone_used = tz))

\* df2 of lines 492-501, as the rows insert_df appends.
PersistedRows(df, start, tz, localizedWith, stamp) ==
    [i \in 1..Len(df) |->
        [event_key       |-> df[i].event_key,
         event_date      |-> df[i].event_date,
         event_time      |-> df[i].event_time,
         first_player    |-> df[i].first_player,
         second_player   |-> df[i].second_player,
         tournament_name |-> df[i].tournament_name,
         event_type_type |-> df[i].event_type_type,
         event_status    |-> df[i].event_status,
         source_date     |-> IF df[i].event_date = <<>> THEN start
                             ELSE DaysFromCivil(df[i].event_date),
         timezone_used   |-> tz,
         _ingested_at    |-> stamp,
         \* history, not a column: the zone name the localizer was given
         localized_with  |-> localizedWith]]

\* The statements of one save, in order: ensure_objects' five, the delete
\* and the bulk insert.
SaveStatements ==
    <<"create database", "create schema", "use database", "use schema",
      "create table", "delete", "insert">>

Executed(by, stmts, isOpen) ==
    [i \in 1..Len(stmts) |-> [op |-> "execute", by |-> by, sql |-> stmts[i], open |-> isOpen]]

\* The save handler, lines 477-512.  failAt is the statement that raises
\* (0: none); on a closed connection the first cursor() raises.
DoSave ==
    /\ pc = "save"
    /\ pc' = "query"
    /\ \E failAt \in 0..Len(SaveStatements) :
        IF ~do_save \/ df_buf = <<>> \/ fecha_hasta < fecha_desde
        THEN UNCHANGED sinkVars
        ELSE LET cnx == get_sf_conn(sf_cache, credentials) IN
             IF ~cnx.ok
             THEN UNCHANGED sinkVars
             ELSE LET isOpen == cnx.v = "open"
                      raised == IF isOpen THEN failAt ELSE 1
                      done   == IF raised = 0 THEN Len(SaveStatements) ELSE raised - 1
                      tried  == IF raised = 0 THEN Len(SaveStatements) ELSE raised
                      tz     == Strip(timezone)
                      kept   == IF done >= 6
                                THEN delete_partition_range(table, fecha_desde, fecha_hasta, tz)
                                ELSE table
                      after  == IF done >= 7
                                THEN kept \o PersistedRows(df_buf, fecha_desde, tz, buf_tz,
                                                           ingest_clock + 1)
                                ELSE kept
                      others(rows) == SelectSeq(rows, LAMBDA r : r.timezone_used # tz)
                  IN  /\ table' = after
                      /\ table_exists' = (table_exists \/ done >= 5)
                      /\ ingest_clock' = IF done >= 7 THEN ingest_clock + 1 ELSE ingest_clock
                      /\ sf_cache' = "closed"
                      /\ sf_log' = sf_log
                                   \o <<[op |-> "acquire", by |-> "save", open |-> isOpen]>>
                                   \o Executed("save", SubSeq(SaveStatements, 1, tried), isOpen)
                                   \o <<[op |-> "close", by |-> "save"]>>
                      /\ save_hist' = Append(save_hist,
                            [start |-> fecha_desde, stop |-> fecha_hasta, tz |-> tz,
                             ok |-> (raised = 0), stamp |-> ingest_clock + 1,
                             others_unchanged |-> (others(table) = others(after))])
    /\ UNCHANGED <<convVars, widgetVars, envVars, df_buf, buf_tz, restarts, fetch_out>>

\* The preview query, lines 531-537.  The select raises on a closed
\* connection, on a missing table, or when the warehouse fails it; close()
\* is the statement after it, inside the same try.
DoQuery ==
    /\ pc = "query"
    /\ pc' = "done"
    /\ \E selectFails \in BOOLEAN :
        LET cnx2 == get_sf_conn(sf_cache, credentials) IN
        IF ~cnx2.ok
        THEN UNCHANGED <<sf_cache, sf_log>>
        ELSE LET isOpen == cnx2.v = "open"
                 raised == ~isOpen \/ ~table_exists \/ selectFails
             IN  /\ sf_cache' = IF raised THEN cnx2.v ELSE "closed"
                 /\ sf_log' = sf_log
                              \o <<[op |-> "acquire", by |-> "query", open |-> isOpen]>>
                              \o Executed("query", <<"select">>, isOpen)
                              \o (IF raised THEN <<>> ELSE <<[op |-> "close", by |-> "query"]>>)
    /\ UNCHANGED <<convVars, widgetVars, envVars, df_buf, buf_tz, restarts, fetch_out,
                   table, table_exists, ingest_clock, save_hist>>

\* The script has run to its last line: its locals are gone, and the
\* buttons read FALSE until clicked again.
EndRun ==
    /\ pc = "done"
    /\ pc' = "idle"
    /\ fetch_out' = NoFetch
    /\ sf_log' = <<>>
    /\ do_fetch' = FALSE
    /\ do_save' = FALSE
    /\ UNCHANGED <<convVars, envVars, df_buf, buf_tz, restarts, betsapi_token, fecha_desde,
                   fecha_hasta, timezone, upl, sf_cache, table, table_exists, ingest_clock,
                   save_hist>>

-----------------------------------------------------------------------------
(* The user: every widget change and every click reruns the script *)

Tokens == {"", "tok"}
TimezoneInputs == {"America/Monterrey", " UTC "}

Rerun ==
    /\ pc = "idle"
    /\ pc' = "fetch"
    /\ UNCHANGED <<convVars, envVars, sinkVars, df_buf, buf_tz, restarts, fetch_out>>

ChangeToken ==
    /\ Rerun
    /\ \E t \in Tokens \ {betsapi_token} : betsapi_token' = t
    /\ UNCHANGED <<fecha_desde, fecha_hasta, timezone, upl, do_fetch, do_save>>

ChangeDesde ==
    /\ Rerun
    /\ \E d \in Days \ {fecha_desde} : fecha_desde' = d
    /\ UNCHANGED <<betsapi_token, fecha_hasta, timezone, upl, do_fetch, do_save>>

ChangeHasta ==
    /\ Rerun
    /\ \E d \in Days \ {fecha_hasta} : fecha_hasta' = d
    /\ UNCHANGED <<betsapi_token, fecha_desde, timezone, upl, do_fetch, do_save>>

ChangeTimezone ==
    /\ Rerun
    /\ \E z \in TimezoneInputs \ {timezone} : timezone' = z
    /\ UNCHANGED <<betsapi_token, fecha_desde, fecha_hasta, upl, do_fetch, do_save>>

ChangeUpload ==
    /\ Rerun
    /\ \E f \in ({<<>>} \cup {<<u>> : u \in UploadFiles}) \ {upl} : upl' = f
    /\ UNCHANGED <<betsapi_token, fecha_desde, fecha_hasta, timezone, do_fetch, do_save>>

ClickFetch ==
    /\ Rerun
    /\ do_fetch' = TRUE
    /\ UNCHANGED <<betsapi_token, fecha_desde, fecha_hasta, timezone, upl, do_save>>

ClickSave ==
    /\ Rerun
    /\ Len(save_hist) < MaxSaves
    /\ do_save' = TRUE
    /\ UNCHANGED <<betsapi_token, fecha_desde, fecha_hasta, timezone, upl, do_fetch>>

\* The server process restarts and the browser reloads the page: the
\* resource cache and the session state are rebuilt (lines 51 and 303-304),
\* the widgets show their defaults, the warehouse keeps its rows.
ProcessRestart ==
    /\ pc = "idle"
    /\ restarts < MaxRestarts
    /\ restarts' = restarts + 1
    /\ pc' = "fetch"
    /\ betsapi_token' = ""
    /\ \E today \in Days : fecha_desde' = today /\ fecha_hasta' = today
    /\ timezone' = "America/Monterrey"
    /\ upl' = <<>>
    /\ do_fetch' = FALSE
    /\ do_save' = FALSE
    /\ df_buf' = <<>>
    /\ buf_tz' = ""
    /\ sf_cache' = "none"
    /\ UNCHANGED <<convVars, envVars, fetch_out, table, table_exists, ingest_clock, sf_log,
                   save_hist>>

-----------------------------------------------------------------------------
(* The application *)

\* The first run of the script, on page load, is about to start.
PageLoad ==
    /\ betsapi_token = ""
    /\ \E today \in Days : fecha_desde = today /\ fecha_hasta = today
    /\ timezone = "America/Monterrey"
    /\ upl = <<>>
    /\ do_fetch = FALSE
    /\ do_save = FALSE
    /\ df_buf = <<>>
    /\ buf_tz = ""
    /\ sf_cache = "none"
    /\ pc = "fetch"
    /\ fetch_out = NoFetch
    /\ sf_log = <<>>
    /\ save_hist = <<>>
    /\ table = <<>>
    /\ table_exists = FALSE
    /\ ingest_clock = 0
    /\ restarts = 0

ConvIdle ==
    /\ side = NoneV
    /\ name_out = <<>>
    /\ epoch_value = NoneV
    /\ tz_name = ""
    /\ dt_out = <<>>

\* The endpoints of the application runs: every day has one data page, then
\* an empty page.
AppEndpoints == {[d \in Days |-> [n |-> 1, tail |-> "empty"]]}

Init ==
    /\ PageLoad
    /\ ConvIdle
    /\ ZoneInfo = TRUE
    /\ credentials = TRUE
    /\ endpoint \in AppEndpoints

Next ==
    \/ ChangeToken
    \/ ChangeDesde
    \/ ChangeHasta
    \/ ChangeTimezone
    \/ ChangeUpload
    \/ ClickFetch
    \/ ClickSave
    \/ DoFetch
    \/ DoUpload
    \/ DoSave
    \/ DoQuery
    \/ EndRun

Spec == Init /\ [][Next]_vars

-----------------------------------------------------------------------------
(* Saves across a server restart: the range stays on the day the page loads
   with, the zone on its default *)

NextSave ==
    \/ ChangeToken
    \/ ClickFetch
    \/ ClickSave
    \/ ProcessRestart
    \/ DoFetch
    \/ DoUpload
    \/ DoSave
    \/ DoQuery
    \/ EndRun

SpecSave == Init /\ [][NextSave]_vars

-----------------------------------------------------------------------------
(* The fetch handler against every scripted endpoint, with no warehouse
   credentials configured *)

InitFetch ==
    /\ PageLoad
    /\ ConvIdle
    /\ ZoneInfo = TRUE
    /\ credentials = FALSE
    /\ endpoint \in [Days -> DayScripts]

NextFetch ==
    \/ ChangeToken
    \/ ChangeDesde
    \/ ChangeHasta
    \/ ClickFetch
    \/ DoFetch
    \/ DoUpload
    \/ DoSave
    \/ DoQuery
    \/ EndRun

SpecFetch == InitFetch /\ [][NextFetch]_vars

-----------------------------------------------------------------------------
(* The two leaf helpers on every input of a bounded set *)

NameFields == {"name", "name_en", "name_full", "name_short"}

\* A dict holds the keys whose value is not the absent marker.
AbsentV == [t |-> "absent"]
DictOf(f) == DictV([k \in {k \in DOMAIN f : f[k] # AbsentV} |-> f[k]])

SideInputs ==
    {NoneV, StrV("Nadal"), StrV(""), IntV(7)}
    \cup {DictOf(f) : f \in [NameFields -> {AbsentV, NoneV, StrV(""), StrV("A"), StrV("B")}]}

EpochInputs ==
    {NoneV, IntV(0), IntV(86400), IntV(-1), IntV(1709251200), IntV(1709251200 + 7 * 3600 + 62),
     StrV(""), StrV("0"), StrV("1709251200"), StrV("abc"), BigIntV,
     DictV([x \in {} |-> NoneV]), ListV(<<IntV(1)>>)}

TzNameInputs == {"", "UTC", "America/Monterrey", "Asia/Tokyo", "Invalid/Zone"}

InitConv ==
    /\ fecha_desde = 19783
    /\ PageLoad
    /\ credentials = FALSE
    /\ endpoint \in AppEndpoints
    /\ side \in SideInputs
    /\ epoch_value \in EpochInputs
    /\ tz_name \in TzNameInputs
    /\ ZoneInfo \in BOOLEAN
    /\ name_out = <<>>
    /\ dt_out = <<>>

ExtractName ==
    /\ name_out = <<>>
    /\ name_out' = <<_extract_name(side)>>
    /\ UNCHANGED <<side, epoch_value, tz_name, dt_out, widgetVars, envVars, sinkVars, df_buf,
                   buf_tz, restarts, pc, fetch_out>>

ConvertEpoch ==
    /\ dt_out = <<>>
    /\ dt_out' = <<_convert_epoch_to_date_time(epoch_value, tz_name, ZoneInfo)>>
    /\ UNCHANGED <<side, epoch_value, tz_name, name_out, widgetVars, envVars, sinkVars, df_buf,
                   buf_tz, restarts, pc, fetch_out>>

NextConv ==
    \/ ExtractName
    \/ ConvertEpoch

SpecConv == InitConv /\ [][NextConv]_vars

-----------------------------------------------------------------------------
(* Properties *)

\* The first truthy value of d under the keys of `order`, as a string.
RECURSIVE FirstNonEmpty(_, _)
FirstNonEmpty(d, order) ==
    IF order = <<>> THEN ""
    ELSE IF Truthy(Get(d, Head(order))) THEN Str(Get(d, Head(order)))
    ELSE FirstNonEmpty(d, Tail(order))

\* C8, as claimed: on a dict the extractor returns the first non-empty field
\* in the order full name, English name, short name, generic name (so
\* name_full wins over name), and "" when none is set.
C8_FullNameFirst ==
    (name_out # <<>> /\ side.t = "dict") =>
        name_out[1] = FirstNonEmpty(side.v, <<"name_full", "name_en", "name_short", "name">>)

\* C8, amended: on a dict the extractor returns the first non-empty field in
\* the order name, name_en, name_full, name_short: with both name_full and
\* name set it returns name, with only name_full it returns name_full, with
\* none of the four it returns ""; None gives "" and a string is returned
\* as it is.
C8_GenericNameFirst ==
    name_out # <<>> =>
        /\ side.t = "dict" =>
            /\ name_out[1] = FirstNonEmpty(side.v, <<"name", "name_en", "name_full", "name_short">>)
            /\ Truthy(Get(side.v, "name")) => name_out[1] = Get(side.v, "name").v
            /\ (\A k \in NameFields : ~Truthy(Get(side.v, k))) => name_out[1] = ""
        /\ side.t = "none" => name_out[1] = ""
        /\ side.t = "str" => name_out[1] = side.v

\* C8 witness: a side with both name_full and name, different, has been
\* extracted.
C8_Witness ==
    /\ side.t = "dict"
    /\ Get(side.v, "name_full") = StrV("B")
    /\ Get(side.v, "name") = StrV("A")
    /\ name_out = <<"A">>

\* The zone name does not resolve: it is empty, unknown, or zoneinfo is missing.
Unresolved == ~(ZoneInfo /\ tz_name # "" /\ tz_name \in DOMAIN ZoneOffset)

\* C7, as claimed: every integer-coercible epoch, 0 included, with an
\* unresolved zone gives its UTC date and time (0 gives 1970-01-01 00:00:00),
\* and ("", "") comes only from an absent or non-coercible epoch or from both
\* formatting tiers failing.
C7_FallbackIncludingZero ==
    dt_out # <<>> =>
        LET c == IntCoerce(epoch_value) IN
        /\ (c.ok /\ ~c.huge /\ Unresolved) => dt_out[1] = FormatDateTime(c.v)
        /\ (epoch_value = IntV(0) /\ tz_name = "Invalid/Zone")
               => dt_out[1] = << <<1970, 1, 1>>, <<0, 0, 0>> >>
        /\ dt_out[1] = EmptyDateTime => (epoch_value.t = "none" \/ ~c.ok \/ c.huge)

\* C7, amended: the fallback applies to truthy epochs only.  A truthy
\* integer-coercible epoch inside datetime's range gives the date and time
\* of the named zone, or of UTC when the zone is unresolved; the result is
\* ("", "") exactly when the epoch is falsy (None, 0, "", an empty
\* container), not integer-coercible, or outside datetime's range so that
\* both tiers fail; every input gives a pair, none raises.
C7_FallbackOnTruthyEpoch ==
    dt_out # <<>> =>
        LET c == IntCoerce(epoch_value)
            formats == Truthy(epoch_value) /\ c.ok /\ ~c.huge
        IN  /\ Len(dt_out[1]) = 2
            /\ (formats /\ Unresolved) => dt_out[1] = FormatDateTime(c.v)
            /\ (formats /\ ~Unresolved)
                   => dt_out[1] = FormatDateTime(c.v + ZoneOffset[tz_name])
            /\ dt_out[1] = EmptyDateTime <=> ~formats
            /\ (epoch_value = StrV("0") /\ tz_name = "Invalid/Zone")
                   => dt_out[1] = << <<1970, 1, 1>>, <<0, 0, 0>> >>
            /\ epoch_value = IntV(0) => dt_out[1] = EmptyDateTime
            /\ (epoch_value = IntV(1709251200) /\ tz_name = "America/Monterrey" /\ ZoneInfo)
                   => dt_out[1] = << <<2024, 2, 29>>, <<18, 0, 0>> >>

\* C7 witness: a truthy epoch has been converted under an unknown zone name
\* and came out in UTC.
C7_Witness ==
    /\ epoch_value = IntV(86400)
    /\ tz_name = "Invalid/Zone"
    /\ ZoneInfo
    /\ dt_out = << << <<1970, 1, 2>>, <<0, 0, 0>> >> >>

-----------------------------------------------------------------------------

\* The fetch handler paginated in this run.
Paginated == fetch_out.status \in {"ok", "no_rows", "general_error"}

\* The list a successful response carries.
ResultsOf(r) ==
    LET plural == Get(r.v.v, "results")
    IN  IF plural.t = "none" THEN Get(r.v.v, "result") ELSE plural

\* The endpoint answers page p of day d with success = 1 and a non-empty list.
NonEmptyPage(d, p) ==
    LET r == fetch_api_day(endpoint, d, p)
    IN  /\ r.ok
        /\ r.v.t = "dict"
        /\ Get(r.v.v, "success") = IntV(1)
        /\ ResultsOf(r).t = "list"
        /\ ResultsOf(r).v # <<>>

RECURSIVE PagesConcat(_, _)
PagesConcat(d, n) ==
    IF n = 0 THEN <<>>
    ELSE PagesConcat(d, n - 1) \o ResultsOf(fetch_api_day(endpoint, d, n)).v

\* C2: a day whose every request (pages 1 to 21) is answered with success = 1
\* and a non-empty list is paginated with exactly the 20 requests for pages
\* 1..20, its accumulator holds exactly the records of those pages, and the
\* error list holds exactly one ceiling entry for the day.
C2_PageCeiling ==
    Paginated =>
        \A d \in Days :
            ((\A p \in 1..21 : NonEmptyPage(d, p))
             /\ \E i \in 1..Len(fetch_out.requests) : fetch_out.requests[i][1] = d)
            => /\ SelectSeq(fetch_out.requests, LAMBDA q : q[1] = d)
                    = [p \in 1..20 |-> <<d, p>>]
               /\ (d - fecha_desde + 1) \in 1..Len(fetch_out.accs)
               /\ fetch_out.accs[d - fecha_desde + 1] = PagesConcat(d, 20)
               /\ Len(SelectSeq(fetch_out.errores,
                                LAMBDA e : e.day = d /\ e.kind = "ceiling")) = 1
               /\ Len(SelectSeq(fetch_out.errores, LAMBDA e : e.day = d)) = 1

\* C2 witness: a fetch has paginated such a day up to page 20.
C2_Witness ==
    /\ Paginated
    /\ \E d \in Days :
        /\ \A p \in 1..21 : NonEmptyPage(d, p)
        /\ \E i \in 1..Len(fetch_out.requests) : fetch_out.requests[i] = <<d, 20>>

\* C3, as claimed: with a valid range and a token, whatever the endpoint
\* answers, page 1 of every day of the range is requested exactly once, in
\* ascending order, the last request is for the last day, and the errors
\* recorded are all displayed, in the order they were met.
C3_EveryDayRequested ==
    Paginated =>
        /\ SelectSeq(fetch_out.requests, LAMBDA q : q[2] = 1)
               = [i \in 1..(fecha_hasta - fecha_desde + 1) |-> <<fecha_desde + i - 1, 1>>]
        /\ fetch_out.requests[Len(fetch_out.requests)][1] = fecha_hasta
        /\ fetch_out.shown = fetch_out.errores

\* The rows of every completed day, in (day, page, position) order.
RECURSIVE FetchedRows(_)
FetchedRows(accs) ==
    IF accs = <<>> THEN <<>>
    ELSE [i \in 1..Len(Head(accs)) |-> NormalizeRow(Head(accs)[i].v, Strip(timezone), ZoneInfo)]
         \o FetchedRows(Tail(accs))

\* C4: after a fetch that yields rows, no two rows of the result share an
\* event_key, every key fetched is in the result, and the row kept for a key
\* is the one normalised from its first occurrence in (day, page, position)
\* order.
C4_DedupKeepsFirst ==
    fetch_out.status = "ok" =>
        LET all == FetchedRows(fetch_out.accs)
            out == fetch_out.df_all
            first(k) == CHOOSE i \in 1..Len(all) :
                            /\ all[i].event_key = k
                            /\ \A j \in 1..(i - 1) : all[j].event_key # k
        IN  /\ \A i, j \in 1..Len(out) : out[i].event_key = out[j].event_key => i = j
            /\ \A i \in 1..Len(all) :
                   \E j \in 1..Len(out) : out[j] = all[first(all[i].event_key)]
            /\ \A j \in 1..Len(out) :
                   \E i \in 1..Len(all) : out[j] = all[first(all[i].event_key)]
            /\ pc = "upload" => df_buf = out

\* C4 witness: a fetch over two days has met one key on both, with different
\* rows, and has stored its result.
C4_Witness ==
    /\ fetch_out.status = "ok"
    /\ Len(fetch_out.accs) >= 2
    /\ \E i \in 1..Len(fetch_out.accs[1]), j \in 1..Len(fetch_out.accs[2]) :
        LET a == NormalizeRow(fetch_out.accs[1][i].v, Strip(timezone), ZoneInfo)
            b == NormalizeRow(fetch_out.accs[2][j].v, Strip(timezone), ZoneInfo)
        IN  a.event_key = b.event_key /\ a # b
    /\ df_buf = fetch_out.df_all

-----------------------------------------------------------------------------

\* C1, as claimed: of two successive saves that both complete, with the same
\* range and zone, no row of the first remains in the table, and neither
\* touched a row of another zone.
C1_PartitionReplaced ==
    \A i \in 1..(Len(save_hist) - 1) :
        LET a == save_hist[i]
            b == save_hist[i + 1]
        IN  (a.ok /\ b.ok /\ a.start = b.start /\ a.stop = b.stop /\ a.tz = b.tz)
            => /\ \A r \in 1..Len(table) : table[r]._ingested_at # a.stamp
               /\ a.others_unchanged
               /\ b.others_unchanged

\* C5, as claimed: every persisted row names in timezone_used the zone the
\* localizer was given when its event_date and event_time were computed.
C5_TimezoneUsedIsLocalizerZone ==
    \A r \in 1..Len(table) : table[r].timezone_used = table[r].localized_with

\* C6, as claimed: at the end of a run, every acquisition of an open
\* connection, by the save or by the preview query, has been followed by a
\* close by the same handler.
C6_ConnectionReleased ==
    pc = "done" =>
        \A i \in 1..Len(sf_log) :
            (sf_log[i].op = "acquire" /\ sf_log[i].open)
            => \E j \in (i + 1)..Len(sf_log) :
                   sf_log[j].op = "close" /\ sf_log[j].by = sf_log[i].by

\* C9, as claimed: at the end of a run whose fetch yielded rows, the session
\* buffer is the deduplicated fetched row set.
C9_BufferIsFetchedSet ==
    (pc = "done" /\ fetch_out.status = "ok") => df_buf = fetch_out.df_all

\* C10, as claimed: no statement is issued on a connection that is closed.
C10_NoStatementOnClosed ==
    \A i \in 1..Len(sf_log) : sf_log[i].op = "execute" => sf_log[i].open

====
